---- MODULE Spec2Model ----
(***************************************************************************)
(* Model of the GameFAQs scraping engine (src/resources/lib/scraper.py).   *)
(*                                                                         *)
(* Python strings are sequences of one-character strings, so that `in`,    *)
(* lower(), split() and replace() are computed character by character.     *)
(* A Python dict literal is the sequence of its (key, value) items in      *)
(* insertion order.  A regular expression's findall/finditer result is the *)
(* sequence of its matches' captured groups, in page order.                *)
(***************************************************************************)
EXTENDS Integers, Sequences, FiniteSets, TLC

VARIABLES
    scraper_disabled,  \* Scraper.scraper_disabled of the instance
    status_dic,        \* the caller's shared status object, as the last call left it
    disk_cache,        \* persistent cache, namespace Scraper.CACHE_METADATA
    all_asset_cache,   \* self.all_asset_cache, the in-run asset-batch cache
    net_log,           \* per candidate id: fetches of its images-listing page so far
    retrievals,        \* per candidate id: calls of _retrieve_all_assets so far
    meta_returns,      \* per cache key: the records get_metadata has returned so far
    ret,               \* the last public call: its arguments, outcome and fetches
    cl,                \* _parse_asset_type applied to one header
    pm                 \* the platform converters applied to one argument

vars == << scraper_disabled, status_dic, disk_cache, all_asset_cache, net_log,
           retrievals, meta_returns, ret, cl, pm >>

---------------------------------------------------------------------------
(* Python values and string primitives *)

\* Python's None, as a value no string of characters equals.
PyNone == << "None" >>

UpperChars == << "A","B","C","D","E","F","G","H","I","J","K","L","M",
                 "N","O","P","Q","R","S","T","U","V","W","X","Y","Z" >>
LowerChars == << "a","b","c","d","e","f","g","h","i","j","k","l","m",
                 "n","o","p","q","r","s","t","u","v","w","x","y","z" >>

\* str.lower() on one character (ASCII letters).
LowerChar(c) ==
    IF \E i \in DOMAIN UpperChars : UpperChars[i] = c
    THEN LowerChars[CHOOSE i \in DOMAIN UpperChars : UpperChars[i] = c]
    ELSE c

\* str.lower()
Lower(s) == [i \in 1..Len(s) |-> LowerChar(s[i])]

\* s.find(t): the least 0-based index where t occurs in s, or -1.
Find(s, t) ==
    LET hits == { i \in 0..(Len(s) - Len(t)) : SubSeq(s, i + 1, i + Len(t)) = t }
    IN  IF hits = {} THEN -1 ELSE CHOOSE i \in hits : \A j \in hits : i <= j

\* t in s, for strings
Contains(s, t) == Find(s, t) # -1

\* s.replace(old, new), old non-empty: leftmost non-overlapping occurrences.
RECURSIVE Replace(_, _, _)
Replace(s, old, new) ==
    LET i == Find(s, old)
    IN  IF i = -1 THEN s
        ELSE SubSeq(s, 1, i) \o new
             \o Replace(SubSeq(s, i + Len(old) + 1, Len(s)), old, new)

\* s.split(sep), sep one character: the list of the pieces between separators.
RECURSIVE Split(_, _)
Split(s, sep) ==
    LET i == Find(s, << sep >>)
    IN  IF i = -1 THEN << s >>
        ELSE << SubSeq(s, 1, i) >> \o Split(SubSeq(s, i + 2, Len(s)), sep)

\* The concatenation of a sequence of strings.
RECURSIVE Join(_)
Join(ws) == IF ws = << >> THEN << >> ELSE Head(ws) \o Join(Tail(ws))

\* Every sequence of at most n elements of S.
SeqsUpTo(S, n) == UNION { [1..k -> S] : k \in 0..n }

\* Every sequence of at most n distinct elements of S.
DistinctSeqsUpTo(S, n) ==
    { q \in SeqsUpTo(S, n) : \A i, j \in DOMAIN q : i # j => q[i] # q[j] }

---------------------------------------------------------------------------
(* akl.constants used by the scraper *)

ASSET_TITLE_ID    == "title"
ASSET_SNAP_ID     == "snap"
ASSET_BOXFRONT_ID == "boxfront"
ASSET_BOXBACK_ID  == "boxback"

AssetKinds == { ASSET_TITLE_ID, ASSET_SNAP_ID, ASSET_BOXFRONT_ID, ASSET_BOXBACK_ID }

---------------------------------------------------------------------------
(* GameFAQs._parse_asset_type *)

S_Screenshots == <<"S","c","r","e","e","n","s","h","o","t","s">>
S_BoxBack     == <<"B","o","x"," ","B","a","c","k">>
S_BoxFront    == <<"B","o","x"," ","F","r","o","n","t">>
S_Box         == <<"B","o","x">>
S_Video       == <<"V","i","d","e","o">>

\* A returned list of asset kinds, or None.
KindList(items) == [tag |-> "list", items |-> items]
NoKinds == [tag |-> "None"]

\* The classifier with the 'Box' test moved before the two specific tests.
parse_asset_type_box_first(header) ==
    IF Contains(header, S_Screenshots)
    THEN KindList(<< ASSET_SNAP_ID, ASSET_TITLE_ID >>)
    ELSE IF Contains(header, S_Box)
    THEN KindList(<< ASSET_BOXFRONT_ID, ASSET_BOXBACK_ID >>)
    ELSE IF Contains(header, S_BoxBack)
    THEN KindList(<< ASSET_BOXBACK_ID >>)
    ELSE IF Contains(header, S_BoxFront)
    THEN KindList(<< ASSET_BOXFRONT_ID >>)
    ELSE IF Contains(header, S_Video)
    THEN NoKinds
    ELSE KindList(<< ASSET_SNAP_ID >>)

_parse_asset_type(header) ==
    IF Contains(header, S_Screenshots)
    THEN KindList(<< ASSET_SNAP_ID, ASSET_TITLE_ID >>)
    ELSE IF Contains(header, S_BoxBack)
    THEN KindList(<< ASSET_BOXBACK_ID >>)
    ELSE IF Contains(header, S_BoxFront)
    THEN KindList(<< ASSET_BOXFRONT_ID >>)
    ELSE IF Contains(header, S_Box)
    THEN KindList(<< ASSET_BOXFRONT_ID, ASSET_BOXBACK_ID >>)
    ELSE IF Contains(header, S_Video)
    THEN NoKinds
    ELSE KindList(<< ASSET_SNAP_ID >>)

---------------------------------------------------------------------------
(* Platform tables and converters *)

\* platforms.PLATFORM_MAME_COMPACT and platforms.PLATFORM_UNKNOWN_COMPACT
PLATFORM_MAME_COMPACT    == <<"m","a","m","e">>
PLATFORM_UNKNOWN_COMPACT == <<"u","n","k","n","o","w","n">>

DEFAULT_PLAT_GAMEFAQS == 0

\* The dict literal, item by item in source order.
AKL_compact_platform_GameFaqs_mapping ==
    <<
       << <<"3","d","o">>, 61 >>,  \* line 629: '3do'
       << <<"c","p","c">>, 46 >>,  \* line 630: 'cpc'
       << <<"a","2","6","0","0">>, 6 >>,  \* line 631: 'a2600'
       << <<"a","5","2","0","0">>, 20 >>,  \* line 632: 'a5200'
       << <<"a","7","8","0","0">>, 51 >>,  \* line 633: 'a7800'
       << <<"j","a","g","u","a","r">>, 72 >>,  \* line 634: 'jaguar'
       << <<"j","a","g","u","a","r","c","d">>, 82 >>,  \* line 635: 'jaguarcd'
       << <<"l","y","n","x">>, 58 >>,  \* line 636: 'lynx'
       << <<"a","t","a","r","i","-","s","t">>, 38 >>,  \* line 637: 'atari-st'
       << <<"w","s","w","a","n">>, 90 >>,  \* line 638: 'wswan'
       << <<"w","s","w","a","n","c","o","l","o","r">>, 95 >>,  \* line 639: 'wswancolor'
       << <<"c","v","i","s","i","o","n">>, 29 >>,  \* line 640: 'cvision'
       << <<"c","6","4">>, 24 >>,  \* line 641: 'c64'
       << <<"a","m","i","g","a">>, 39 >>,  \* line 642: 'amiga'
       << <<"c","d","3","2">>, 70 >>,  \* line 643: 'cd32'
       << <<"v","i","c","2","0">>, 11 >>,  \* line 644: 'vic20'
       << <<"f","m","t","m","a","r","t","y">>, 55 >>,  \* line 645: 'fmtmarty'
       << <<"v","e","c","t","r","e","x">>, 34 >>,  \* line 646: 'vectrex'
       << <<"o","d","y","s","s","e","y","2">>, 9 >>,  \* line 647: 'odyssey2'
       << PLATFORM_MAME_COMPACT, 2 >>,  \* line 648: platforms.PLATFORM_MAME_COMPACT
       << <<"i","v","i","s","i","o","n">>, 16 >>,  \* line 649: 'ivision'
       << <<"m","s","d","o","s">>, 19 >>,  \* line 650: 'msdos'
       << <<"m","s","x">>, 40 >>,  \* line 651: 'msx'
       << <<"m","s","x","2">>, 40 >>,  \* line 652: 'msx2'
       << <<"w","i","n","d","o","w","s">>, 19 >>,  \* line 653: 'windows'
       << <<"x","b","o","x">>, 98 >>,  \* line 654: 'xbox'
       << <<"x","b","o","x","3","6","0">>, 111 >>,  \* line 655: 'xbox360'
       << <<"x","b","o","x","o","n","e">>, 121 >>,  \* line 656: 'xboxone'
       << <<"p","c","e">>, 53 >>,  \* line 657: 'pce'
       << <<"p","c","e","c","d">>, 56 >>,  \* line 658: 'pcecd'
       << <<"p","c","f","x">>, 79 >>,  \* line 659: 'pcfx'
       << <<"s","g","x">>, 53 >>,  \* line 660: 'sgx'
       << <<"n","3","d","s">>, 116 >>,  \* line 661: 'n3ds'
       << <<"n","6","4">>, 84 >>,  \* line 662: 'n64'
       << <<"n","6","4","d","d">>, 92 >>,  \* line 663: 'n64dd'
       << <<"n","d","s">>, 108 >>,  \* line 664: 'nds'
       << <<"n","d","s","i">>, 108 >>,  \* line 665: 'ndsi'
       << <<"f","d","s">>, 47 >>,  \* line 666: 'fds'
       << <<"g","b">>, 59 >>,  \* line 667: 'gb'
       << <<"g","b","a">>, 91 >>,  \* line 668: 'gba'
       << <<"g","b","c","o","l","o","r">>, 57 >>,  \* line 669: 'gbcolor'
       << <<"g","a","m","e","c","u","b","e">>, 99 >>,  \* line 670: 'gamecube'
       << <<"n","e","s">>, 41 >>,  \* line 671: 'nes'
       << <<"s","n","e","s">>, 63 >>,  \* line 672: 'snes'
       << <<"s","w","i","t","c","h">>, 124 >>,  \* line 673: 'switch'
       << <<"v","b">>, 83 >>,  \* line 674: 'vb'
       << <<"w","i","i">>, 114 >>,  \* line 675: 'wii'
       << <<"w","i","i","u">>, 118 >>,  \* line 676: 'wiiu'
       << <<"3","2","x">>, 74 >>,  \* line 677: '32x'
       << <<"d","r","e","a","m","c","a","s","t">>, 67 >>,  \* line 678: 'dreamcast'
       << <<"g","a","m","e","g","e","a","r">>, 62 >>,  \* line 679: 'gamegear'
       << <<"s","m","s">>, 49 >>,  \* line 680: 'sms'
       << <<"m","e","g","a","d","r","i","v","e">>, 54 >>,  \* line 681: 'megadrive'
       << <<"g","e","n","e","s","i","s">>, 54 >>,  \* line 682: 'genesis'
       << <<"m","e","g","a","c","d">>, 65 >>,  \* line 683: 'megacd'
       << <<"s","a","t","u","r","n">>, 76 >>,  \* line 684: 'saturn'
       << <<"s","g","1","0","0","0">>, 43 >>,  \* line 685: 'sg1000'
       << <<"x","6","8","k">>, 52 >>,  \* line 686: 'x68k'
       << <<"s","p","e","c","t","r","u","m">>, 35 >>,  \* line 687: 'spectrum'
       << <<"n","e","o","c","d">>, 68 >>,  \* line 688: 'neocd'
       << <<"n","g","p","c","o","l","o","r">>, 89 >>,  \* line 689: 'ngpcolor'
       << <<"p","s","x">>, 78 >>,  \* line 690: 'psx'
       << <<"p","s","2">>, 94 >>,  \* line 691: 'ps2'
       << <<"p","s","3">>, 113 >>,  \* line 692: 'ps3'
       << <<"p","s","4">>, 120 >>,  \* line 693: 'ps4'
       << <<"p","s","p">>, 109 >>,  \* line 694: 'psp'
       << <<"p","s","v","i","t","a">>, 117 >>   \* line 695: 'psvita'
    >>

\* key in d
DictHas(d, key) == \E i \in DOMAIN d : d[i][1] = key

\* d[key], for a key of d
DictGet(d, key) == d[CHOOSE i \in DOMAIN d : d[i][1] = key][2]

\* d[key] = value on a dict held as its items: an existing key keeps its place.
DictSet(d, key, value) ==
    IF DictHas(d, key)
    THEN [i \in DOMAIN d |-> IF d[i][1] = key THEN << key, value >> ELSE d[i]]
    ELSE Append(d, << key, value >>)

\* The inverted dict when the first key listed with a value is kept.
InvertKeepFirst(items) ==
    [ v \in { items[i][2] : i \in DOMAIN items } |->
        items[CHOOSE i \in DOMAIN items :
                 /\ items[i][2] = v
                 /\ \A j \in DOMAIN items : items[j][2] = v => i <= j][1] ]

\* for key, value in items: inverse[value] = key
\* Every assignment to inverse[value] overwrites the one before it, so the loop
\* leaves, for each value, the key of the last item that holds the value.
Invert(items) ==
    [ v \in { items[i][2] : i \in DOMAIN items } |->
        items[CHOOSE i \in DOMAIN items :
                 /\ items[i][2] = v
                 /\ \A j \in DOMAIN items : items[j][2] = v => j <= i][1] ]

GameFaqs_AKL_mapping_first_wins == InvertKeepFirst(AKL_compact_platform_GameFaqs_mapping)

GameFaqs_AKL_compact_platform_mapping == Invert(AKL_compact_platform_GameFaqs_mapping)

\* The lookup that never consults the alias of the platform.
convert_AKL_platform_no_alias(matching_platform) ==
    IF DictHas(AKL_compact_platform_GameFaqs_mapping, matching_platform.compact_name)
    THEN DictGet(AKL_compact_platform_GameFaqs_mapping, matching_platform.compact_name)
    ELSE DEFAULT_PLAT_GAMEFAQS

\* matching_platform is the Platform that platforms.get_AKL_platform found:
\* its compact_name and its aliasof (a compact name, or None).
convert_AKL_platform_to_GameFaqs(matching_platform) ==
    IF DictHas(AKL_compact_platform_GameFaqs_mapping, matching_platform.compact_name)
    THEN DictGet(AKL_compact_platform_GameFaqs_mapping, matching_platform.compact_name)
    ELSE IF /\ matching_platform.aliasof # PyNone
            /\ DictHas(AKL_compact_platform_GameFaqs_mapping, matching_platform.aliasof)
    THEN DictGet(AKL_compact_platform_GameFaqs_mapping, matching_platform.aliasof)
    ELSE DEFAULT_PLAT_GAMEFAQS

\* The compact name handed to platforms.get_AKL_platform_by_compact.
convert_GameFaqs_platform_to_AKL_platform(moby_platform) ==
    IF moby_platform \in DOMAIN GameFaqs_AKL_compact_platform_mapping
    THEN GameFaqs_AKL_compact_platform_mapping[moby_platform]
    ELSE PLATFORM_UNKNOWN_COMPACT

---------------------------------------------------------------------------
(* Candidate search: GameFAQs._get_candidates_from_page, get_candidates *)

S_Amp    == <<"&">>
S_AmpEnt == <<"&","a","m","p",";">>

\* text.unescape_HTML on the titles of the model: the entity &amp; becomes &.
unescape_HTML(s) == Replace(s, S_AmpEnt, S_Amp)

\* f"{game_name} ({game_year}) / {game_platform}"
display_name(game_name, game_year, game_platform) ==
    game_name \o <<" ","(">> \o game_year \o <<")"," ","/"," ">> \o game_platform

\* result[2].split('/')[1] raises IndexError when the link holds no '/'.
RowRaises(result) == Len(Split(result.href, "/")) < 2

\* The platform id of one row (the if/elif/else on the two platform labels).
row_platform_id(result) ==
    LET game_platform     == result.platform
        alt_game_platform == Split(result.href, "/")[2]
    IN  IF DictHas(AKL_compact_platform_GameFaqs_mapping, Lower(game_platform))
        THEN DictGet(AKL_compact_platform_GameFaqs_mapping, Lower(game_platform))
        ELSE IF DictHas(AKL_compact_platform_GameFaqs_mapping, alt_game_platform)
        THEN DictGet(AKL_compact_platform_GameFaqs_mapping, alt_game_platform)
        ELSE 0

\* The score when the substring test is an elif of the equality test.
row_order_exclusive(title, search_term, platform_id, scraper_platform) ==
    1 + (IF Lower(title) = Lower(search_term) THEN 1
         ELSE IF Find(Lower(title), Lower(search_term)) # -1 THEN 1 ELSE 0)
      + (IF scraper_platform > 0 /\ platform_id = scraper_platform THEN 1 ELSE 0)

\* game['order']: 1, then the three independent increments.
row_order(title, search_term, platform_id, scraper_platform) ==
    1 + (IF Lower(title) = Lower(search_term) THEN 1 ELSE 0)
      + (IF Find(Lower(title), Lower(search_term)) # -1 THEN 1 ELSE 0)
      + (IF scraper_platform > 0 /\ platform_id = scraper_platform THEN 1 ELSE 0)

\* The candidate dictionary built from one row of the results page.
game_from_row(result, search_term, scraper_platform) ==
    LET game_name   == unescape_HTML(result.title)
        platform_id == row_platform_id(result)
    IN  [ id               |-> result.pid,
          display_name     |-> display_name(game_name, result.year, result.platform),
          platform         |-> platform_id,
          scraper_platform |-> scraper_platform,
          order            |-> row_order(game_name, search_term, platform_id,
                                         scraper_platform),
          game_name        |-> game_name ]

\* list.sort(key = order) without reverse: ascending, ties in list order.
RECURSIVE sort_by_order_ascending(_)
sort_by_order_ascending(game_list) ==
    IF game_list = << >> THEN << >>
    ELSE LET n      == Len(game_list)
             x      == game_list[n]
             sorted == sort_by_order_ascending(SubSeq(game_list, 1, n - 1))
             k      == Cardinality({ i \in DOMAIN sorted : sorted[i].order <= x.order })
         IN  SubSeq(sorted, 1, k) \o << x >> \o SubSeq(sorted, k + 1, Len(sorted))

\* list.sort(key = lambda result: result['order'], reverse = True): descending,
\* and elements of equal key keep the order they had in the list.
RECURSIVE sort_by_order(_)
sort_by_order(game_list) ==
    IF game_list = << >> THEN << >>
    ELSE LET n      == Len(game_list)
             x      == game_list[n]
             sorted == sort_by_order(SubSeq(game_list, 1, n - 1))
             k      == Cardinality({ i \in DOMAIN sorted : sorted[i].order >= x.order })
         IN  SubSeq(sorted, 1, k) \o << x >> \o SubSeq(sorted, k + 1, Len(sorted))

\* The outcome of a call: a returned value, a returned None, or an exception.
Returned(v)   == [raised |-> "", none |-> FALSE, value |-> v]
ReturnedNone  == [raised |-> "", none |-> TRUE,  value |-> << >>]
Raised(e)     == [raised |-> e,  none |-> FALSE, value |-> << >>]

\* page is the sequence of rows regex_candidates.findall finds in the body.
_get_candidates_from_page(search_term, scraper_platform, page) ==
    IF \E i \in DOMAIN page : RowRaises(page[i])
    THEN Raised("IndexError")
    ELSE Returned(sort_by_order(
             [i \in DOMAIN page |->
                 game_from_row(page[i], search_term, scraper_platform)]))

---------------------------------------------------------------------------
(* Inputs of the search *)

MaxRows == 3

T_Castlevania   == <<"C","a","s","t","l","e","v","a","n","i","a">>
T_CastlevaniaII == <<"C","a","s","t","l","e","v","a","n","i","a"," ","I","I">>
T_CASTLEVANIA   == <<"C","A","S","T","L","E","V","A","N","I","A">>
T_RockEnt       == <<"R","&","a","m","p",";","R">>
T_Castle        == <<"C","a","s","t","l","e">>
T_Zelda         == <<"Z","e","l","d","a">>

Row(platform, pid, href, title, year) ==
    [platform |-> platform, pid |-> pid, href |-> href, title |-> title, year |-> year]

Rows ==
    { Row(<<"N","E","S">>, <<"1">>, <<"/","n","e","s","/","1">>, T_Castlevania, <<"1","9","8","7">>),
      Row(<<"N","E","S">>, <<"2">>, <<"/","n","e","s","/","2">>, T_CastlevaniaII, <<"1","9","8","8">>),
      Row(<<"S","N","E","S">>, <<"3">>, <<"/","s","n","e","s","/","3">>, T_CASTLEVANIA, <<"1","9","9","1">>),
      Row(<<"P","C">>, <<"4">>, <<"/","p","c","/","4">>, T_RockEnt, <<"1","9","9","9">>),
      Row(<<"M","e","g","a"," ","C","D">>, <<"5">>, <<"/","m","e","g","a","c","d","/","5">>, T_Castle, <<"1","9","9","3">>),
      Row(<<"N","E","S">>, <<"6">>, <<"x">>, T_Zelda, <<"1","9","8","6">>) }

\* The first results page: rows of distinct data-pid, in page order.
SearchPages ==
    { p \in SeqsUpTo(Rows, MaxRows) :
        \A i, j \in DOMAIN p : i # j => p[i].pid # p[j].pid }

SearchTerms == { <<"c","a","s","t","l","e","v","a","n","i","a">>, <<"C","a","s","t","l","e">>, <<"r","&","r">> }

Platform(compact_name, aliasof) == [compact_name |-> compact_name, aliasof |-> aliasof]

\* Platforms the host asks for: in the table, known by alias only, unknown.
SearchPlatforms ==
    { Platform(<<"n","e","s">>, PyNone),
      Platform(<<"f","a","m","i","c","o","m">>, <<"n","e","s">>),
      Platform(<<"m","e","g","a","c","d">>, PyNone),
      Platform(PLATFORM_UNKNOWN_COMPACT, PyNone) }

HttpCodes == { 200, 404 }

StatusDics == { [status |-> TRUE], [status |-> FALSE] }

---------------------------------------------------------------------------
(* Asset listing: GameFAQs._load_assets_from_page, _retrieve_all_assets *)

S_ImgMarker == <<"&","a","m","p",";","i","m","g","=","1">>
S_Empty     == << >>

\* The assets one image link of a block yields, kind by kind of asset_infos.
RECURSIVE assets_of_link(_, _)
assets_of_link(image_data, asset_infos) ==
    IF asset_infos = << >> THEN << >>
    ELSE LET asset_id == Head(asset_infos)
             rest     == assets_of_link(image_data, Tail(asset_infos))
         IN  IF asset_id = ASSET_TITLE_ID /\ ~Contains(image_data.lnk, S_ImgMarker)
             THEN rest
             ELSE IF asset_id = ASSET_SNAP_ID /\ Contains(image_data.lnk, S_ImgMarker)
             THEN rest
             ELSE << [ asset_ID     |-> asset_id,
                       display_name |-> IF image_data.alt # PyNone /\ image_data.alt # S_Empty
                                        THEN image_data.alt ELSE S_Empty,
                       url_thumb    |-> image_data.thumb,
                       url          |-> image_data.lnk,
                       is_on_page   |-> TRUE ] >> \o rest

\* The assets of one titled block: none for an excluded title, else link by link.
RECURSIVE assets_of_links(_, _)
assets_of_links(block_items, asset_infos) ==
    IF block_items = << >> THEN << >>
    ELSE assets_of_link(Head(block_items), asset_infos)
         \o assets_of_links(Tail(block_items), asset_infos)

assets_of_block(asset_block) ==
    LET asset_infos == _parse_asset_type(asset_block.title)
    IN  IF asset_infos = NoKinds THEN << >>
        ELSE assets_of_links(asset_block.links, asset_infos.items)

\* page is the sequence of blocks regex_assets.findall finds in the body, each
\* with the links regex_asset_links.finditer finds in its table.
RECURSIVE _load_assets_from_page(_)
_load_assets_from_page(page) ==
    IF page = << >> THEN << >>
    ELSE assets_of_block(Head(page)) \o _load_assets_from_page(Tail(page))

\* cache[key] = value on a dict held as a function
CachePut(cache, key, value) ==
    [k \in (DOMAIN cache) \cup { key } |-> IF k = key THEN value ELSE cache[k]]

\* The retrieval when the loaded batch is not stored in the cache.
_retrieve_all_assets_no_store(cache, cache_key, page) ==
    IF cache_key \in DOMAIN cache
    THEN [asset_list |-> cache[cache_key], cache |-> cache, fetched |-> 0]
    ELSE [asset_list |-> _load_assets_from_page(page), cache |-> cache, fetched |-> 1]

\* The batch of the candidate, the cache after the call, and the fetches made;
\* page is what the listing URL serves, read on a cache miss only.
_retrieve_all_assets(cache, cache_key, page) ==
    IF cache_key \in DOMAIN cache
    THEN [asset_list |-> cache[cache_key], cache |-> cache, fetched |-> 0]
    ELSE LET asset_list == _load_assets_from_page(page)
         IN  [asset_list |-> asset_list,
              cache      |-> CachePut(cache, cache_key, asset_list),
              fetched    |-> 1]

\* The selection that keeps every asset of the batch, whatever its kind.
filter_assets_keep_all(all_asset_list, asset_info_id) == all_asset_list

\* [asset_dic for asset_dic in all_asset_list if asset_dic['asset_ID'] == asset_info_id]
RECURSIVE filter_assets(_, _)
filter_assets(all_asset_list, asset_info_id) ==
    IF all_asset_list = << >> THEN << >>
    ELSE (IF Head(all_asset_list).asset_ID = asset_info_id
          THEN << Head(all_asset_list) >> ELSE << >>)
         \o filter_assets(Tail(all_asset_list), asset_info_id)

---------------------------------------------------------------------------
(* Inputs of the asset listing *)

MaxLinks   == 2
MaxCalls   == 3

H_ReaderScreenshots == <<"G","a","m","e","F","A","Q","s"," ","R","e","a","d","e","r"," ","S","c","r","e","e","n","s","h","o","t","s">>
H_GameBoxShots      == <<"G","a","m","e"," ","B","o","x"," ","S","h","o","t","s">>
H_Videos            == <<"V","i","d","e","o","s">>
H_Artwork           == <<"A","r","t","w","o","r","k">>

BlockTitles ==
    { H_ReaderScreenshots, H_GameBoxShots, S_BoxBack, S_BoxFront, H_Videos, H_Artwork }

Link(lnk, thumb, alt) == [lnk |-> lnk, thumb |-> thumb, alt |-> alt]

\* Links with the marker, without it, with a longer image number, and a boxart link.
L_Img1   == Link(<<"/","s","?","g","=","1","&","a","m","p",";","i","m","g","=","1">>, <<"t","1">>, PyNone)
L_Img2   == Link(<<"/","s","?","g","=","1","&","a","m","p",";","i","m","g","=","2">>, <<"t","2">>, S_Empty)
L_Img10  == Link(<<"/","s","?","g","=","1","&","a","m","p",";","i","m","g","=","1","0">>, <<"t","3">>, PyNone)
L_Box    == Link(<<"/","i","m","a","g","e","s","/","1","3","5","4","5","4">>, <<"t","4">>, <<"C","a","s","t","l","e","v","a","n","i","a"," ","(","U","S",")">>)

ImageLinks == { L_Img1, L_Img2, L_Img10, L_Box }

Block(title, links) == [title |-> title, links |-> links]

\* A block lists at most MaxLinks images, none of them twice.
Blocks ==
    { Block(h, ls) : h \in BlockTitles, ls \in DistinctSeqsUpTo(ImageLinks, MaxLinks) }

\* Blocks that follow one another on the pages of two blocks.
PairBlocks ==
    { Block(H_ReaderScreenshots, << L_Img1, L_Img2 >>),
      Block(H_GameBoxShots, << L_Box >>),
      Block(H_Videos, << L_Box >>),
      Block(H_Artwork, << L_Img2 >>) }

\* The empty page, every page of one block, and the pages of two PairBlocks.
ListingPages ==
    { << >> } \cup { << b >> : b \in Blocks }
              \cup { << b1, b2 >> : b1 \in PairBlocks, b2 \in PairBlocks }

\* Three listing pages of different batches, for the runs over several candidates.
CachePages ==
    { << >>,
      << Block(H_GameBoxShots, << L_Box >>) >>,
      << Block(H_ReaderScreenshots, << L_Img1, L_Img2 >>) >> }

C_Id1 == <<"1">>
C_Id2 == <<"2">>
CandidateIds == { C_Id1, C_Id2 }

---------------------------------------------------------------------------
(* Full-size image resolution: GameFAQs.resolve_asset_URL *)

\* images_on_page is the sequence of images regex_asset_urls.finditer finds,
\* each with its alt text and its data-img URL.  `asset_id in None` raises.
RECURSIVE resolve_scan(_, _)
resolve_scan(images_on_page, asset_id) ==
    IF images_on_page = << >> THEN Returned(<< S_Empty, S_Empty >>)
    ELSE LET image_on_page   == Head(images_on_page)
             image_asset_ids == _parse_asset_type(image_on_page.alt)
         IN  IF image_asset_ids = NoKinds THEN Raised("TypeError")
             ELSE IF \E i \in DOMAIN image_asset_ids.items :
                         image_asset_ids.items[i] = asset_id
             THEN Returned(<< image_on_page.url, image_on_page.url >>)
             ELSE resolve_scan(Tail(images_on_page), asset_id)

\* io.get_URL_extension: the text after the last '.' of the URL, '' without one.
get_URL_extension(image_url) ==
    LET pieces == Split(image_url, ".")
    IN  IF Len(pieces) < 2 THEN S_Empty ELSE pieces[Len(pieces)]

---------------------------------------------------------------------------
(* Inputs of the image resolution *)

MaxImages == 2

A_BoxFront    == <<"C","a","s","t","l","e","v","a","n","i","a"," ","B","o","x"," ","F","r","o","n","t">>
A_BoxBack     == <<"C","a","s","t","l","e","v","a","n","i","a"," ","B","o","x"," ","B","a","c","k">>
A_Video       == <<"G","a","m","e","p","l","a","y"," ","V","i","d","e","o">>
A_Screenshots == <<"C","a","s","t","l","e","v","a","n","i","a"," ","S","c","r","e","e","n","s","h","o","t","s">>
A_Plain       == <<"C","a","s","t","l","e","v","a","n","i","a"," ","(","U","S",")">>

U_Front == <<"/","a","/","f","r","o","n","t",".","j","p","g">>
U_Back  == <<"/","a","/","b","a","c","k",".","p","n","g">>
U_NoExt == <<"/","a","/","s","h","o","t">>

Image(alt, url) == [alt |-> alt, url |-> url]

Images ==
    { Image(A_BoxFront, U_Front), Image(A_BoxBack, U_Back), Image(A_Video, U_NoExt),
      Image(A_Screenshots, U_NoExt), Image(A_Plain, U_Front) }

ImagePages == SeqsUpTo(Images, MaxImages)

\* The asset the host selected from a batch: its kind and its detail page link.
SelectedAssets == { [asset_ID |-> k, url |-> L_Box.lnk] : k \in AssetKinds }

---------------------------------------------------------------------------
(* Metadata extraction: the _parse_* methods and GameFAQs.get_metadata *)

\* akl.constants: the ESRB categories and the default player count.
ESRB_PENDING     == "ESRB_PENDING"
ESRB_EVERYONE    == "ESRB_EVERYONE"
ESRB_EARLY       == "ESRB_EARLY"
ESRB_EVERYONE_10 == "ESRB_EVERYONE_10"
ESRB_TEEN        == "ESRB_TEEN"
ESRB_MATURE      == "ESRB_MATURE"
ESRB_ADULTS_ONLY == "ESRB_ADULTS_ONLY"
DEFAULT_META_NPLAYERS == << "DEFAULT_META_NPLAYERS" >>

Digits == { "0","1","2","3","4","5","6","7","8","9" }

\* str.isnumeric() on the digits of the model
IsNumeric(s) == Len(s) > 0 /\ \A i \in DOMAIN s : s[i] \in Digits

\* The longest run of digits of s that starts at index i (1-based).
RECURSIVE DigitRun(_, _)
DigitRun(s, i) ==
    IF i > Len(s) \/ s[i] \notin Digits THEN << >>
    ELSE << s[i] >> \o DigitRun(s, i + 1)

\* A page field is the group a pattern captured, or None when it did not match.
\* re.search('\d\d\d\d', date_str) on the captured release date.
_parse_year(page_data) ==
    LET date_str == page_data.release
        hits == IF date_str = PyNone THEN {}
                ELSE { i \in 1..(Len(date_str) - 3) :
                         \A k \in 0..3 : date_str[i + k] \in Digits }
    IN  IF hits = {} THEN S_Empty
        ELSE LET i == CHOOSE h \in hits : \A j \in hits : h <= j
             IN  SubSeq(date_str, i, i + 3)

_parse_genre(page_data) ==
    IF page_data.genre # PyNone THEN page_data.genre ELSE S_Empty

_parse_developer(page_data) ==
    IF page_data.dev_a # PyNone THEN page_data.dev_a
    ELSE IF page_data.dev_b # PyNone THEN page_data.dev_b
    ELSE S_Empty

\* text.remove_HTML_tags: every <...> is dropped.
RECURSIVE remove_HTML_tags(_)
remove_HTML_tags(s) ==
    LET i == Find(s, << "<" >>)
        j == IF i = -1 THEN -1 ELSE Find(SubSeq(s, i + 2, Len(s)), << ">" >>)
    IN  IF i = -1 \/ j = -1 THEN s
        ELSE SubSeq(s, 1, i) \o remove_HTML_tags(SubSeq(s, i + j + 3, Len(s)))

_parse_plot(page_data) ==
    IF page_data.plot # PyNone THEN remove_HTML_tags(page_data.plot) ELSE S_Empty

S_Players == <<" ","P","l","a","y","e","r","s">>
S_Player  == <<" ","P","l","a","y","e","r">>
S_UpTo    == <<"U","p"," ","t","o"," ">>

\* regex_num_of_player, \d+\-(\d+): the digits after the leftmost '-' that
\* stands between two digits, or None.
num_of_player_group(s) ==
    LET hits == { i \in 2..(Len(s) - 1) :
                    s[i] = "-" /\ s[i - 1] \in Digits /\ s[i + 1] \in Digits }
    IN  IF hits = {} THEN PyNone
        ELSE DigitRun(s, (CHOOSE h \in hits : \A j \in hits : h <= j) + 1)

nplayers_from(nplayers_str) ==
    IF IsNumeric(nplayers_str) THEN nplayers_str
    ELSE IF num_of_player_group(nplayers_str) = PyNone THEN DEFAULT_META_NPLAYERS
    ELSE num_of_player_group(nplayers_str)

_parse_nplayers(page_data) ==
    IF page_data.local = PyNone THEN DEFAULT_META_NPLAYERS
    ELSE nplayers_from(Replace(Replace(page_data.local, S_Players, S_Empty),
                               S_Player, S_Empty))

_parse_nplayers_online(page_data) ==
    IF page_data.online = PyNone THEN DEFAULT_META_NPLAYERS
    ELSE nplayers_from(Replace(Replace(Replace(page_data.online, S_Players, S_Empty),
                                       S_Player, S_Empty),
                               S_UpTo, S_Empty))

S_EsrbLogo == <<"e","s","r","b","_","l","o","g","o","_">>

\* The mapping when the tests for 'e' and 'ec' stand in the other order of
\* strength: every code that starts with 'e' is taken for 'e'.
parse_esrb_e_first(page_data) ==
    IF page_data.esrb = PyNone THEN ESRB_PENDING
    ELSE LET esrb_code == Replace(page_data.esrb, S_EsrbLogo, S_Empty)
         IN  IF esrb_code # S_Empty /\ Head(esrb_code) = "e" THEN ESRB_EVERYONE
             ELSE IF esrb_code = <<"t">> THEN ESRB_TEEN
             ELSE IF esrb_code = <<"a","o">> THEN ESRB_ADULTS_ONLY
             ELSE IF esrb_code = <<"m">> THEN ESRB_MATURE
             ELSE ESRB_PENDING

_parse_esrb(page_data) ==
    IF page_data.esrb = PyNone THEN ESRB_PENDING
    ELSE LET esrb_code == Replace(page_data.esrb, S_EsrbLogo, S_Empty)
         IN  IF esrb_code = <<"e">> THEN ESRB_EVERYONE
             ELSE IF esrb_code = <<"e","c">> THEN ESRB_EARLY
             ELSE IF esrb_code = <<"e","1","0">> THEN ESRB_EVERYONE_10
             ELSE IF esrb_code = <<"t">> THEN ESRB_TEEN
             ELSE IF esrb_code = <<"a","o">> THEN ESRB_ADULTS_ONLY
             ELSE IF esrb_code = <<"m">> THEN ESRB_MATURE
             ELSE ESRB_PENDING

\* None when the rating pattern is absent.
_parse_rating(page_data) == page_data.rating

\* The dict of the two metacritic entries, or the empty dict.
_parse_metacritics(page_data) ==
    IF page_data.metacritic # PyNone
    THEN << << "metacritics_link", page_data.metacritic[1] >>,
            << "metacritics", page_data.metacritic[2] >> >>
    ELSE << >>

\* dict.update(other), item by item
RECURSIVE DictUpdate(_, _)
DictUpdate(d, other) ==
    IF other = << >> THEN d
    ELSE DictUpdate(DictSet(d, Head(other)[1], Head(other)[2]), Tail(other))

\* Scraper._new_gamedata_dic: the fresh record of defaults.
_new_gamedata_dic ==
    [ title |-> S_Empty, year |-> S_Empty, genre |-> S_Empty, developer |-> S_Empty,
      rating |-> S_Empty, nplayers |-> DEFAULT_META_NPLAYERS,
      nplayers_online |-> DEFAULT_META_NPLAYERS, esrb |-> ESRB_PENDING,
      plot |-> S_Empty, extra |-> << >> ]

\* The record get_metadata builds on a cache miss from the two pages.
build_game_data(candidate, page_data, data_page_data) ==
    [ _new_gamedata_dic EXCEPT
        !.title           = candidate.game_name,
        !.year            = _parse_year(page_data),
        !.genre           = _parse_genre(page_data),
        !.developer       = _parse_developer(page_data),
        !.rating          = _parse_rating(page_data),
        !.nplayers        = _parse_nplayers(data_page_data),
        !.nplayers_online = _parse_nplayers_online(data_page_data),
        !.esrb            = _parse_esrb(page_data),
        !.plot            = _parse_plot(page_data),
        !.extra           = DictUpdate(<< << "gamefaq_id", candidate.id >> >>,
                                       _parse_metacritics(page_data)) ]

\* The call without the store into the persistent cache.
get_metadata_no_store(cache, cache_key, candidate, page_data, data_page_data) ==
    IF cache_key \in DOMAIN cache
    THEN [game_data |-> cache[cache_key], cache |-> cache, fetched |-> 0]
    ELSE [game_data |-> build_game_data(candidate, page_data, data_page_data),
          cache |-> cache, fetched |-> 2]

\* get_metadata of an enabled scraper: the record returned, the metadata
\* namespace of the persistent cache after the call, and the fetches made.
\* The two pages are what the site serves, read on a cache miss only.
get_metadata_enabled(cache, cache_key, candidate, page_data, data_page_data) ==
    IF cache_key \in DOMAIN cache
    THEN [game_data |-> cache[cache_key], cache |-> cache, fetched |-> 0]
    ELSE LET game_data == build_game_data(candidate, page_data, data_page_data)
         IN  [game_data |-> game_data,
              cache     |-> CachePut(cache, cache_key, game_data),
              fetched   |-> 2]

---------------------------------------------------------------------------
(* Inputs of the metadata extraction *)

DetailPage(release, genre, dev_a, dev_b, plot, rating, esrb, metacritic) ==
    [ release |-> release, genre |-> genre, dev_a |-> dev_a, dev_b |-> dev_b,
      plot |-> plot, rating |-> rating, esrb |-> esrb, metacritic |-> metacritic ]

\* A full page, a sparse page, and a page on which no pattern matches.
DetailPages ==
    { DetailPage(<<"M","a","y"," ","1",","," ","1","9","8","7">>, <<"A","c","t","i","o","n">>, <<"K","o","n","a","m","i">>, PyNone,
                 <<"W","h","i","p"," ","<","b",">","i","t","<","/","b",">">>, <<"4",".","1">>, <<"e","s","r","b","_","l","o","g","o","_","e","1","0">>,
                 << <<"/","m","c">>, <<"8","5">> >>),
      DetailPage(<<"T","B","A">>, PyNone, PyNone, <<"N","i","n","t","e","n","d","o">>,
                 PyNone, PyNone, <<"e","s","r","b","_","l","o","g","o","_","x">>, PyNone),
      DetailPage(PyNone, PyNone, PyNone, PyNone, PyNone, PyNone, PyNone, PyNone) }

DataPage(local, online) == [local |-> local, online |-> online]

DataPages ==
    { DataPage(<<"2","-","4"," ","P","l","a","y","e","r","s">>, <<"U","p"," ","t","o"," ","1","8"," ","P","l","a","y","e","r","s">>),
      DataPage(<<"1"," ","P","l","a","y","e","r">>, PyNone),
      DataPage(PyNone, <<"M","a","n","y">>) }

\* Player-count texts: an optional "Up to ", a count, a range or a word, and an
\* optional " Player" or " Players".
PlayerPrefixes == { S_Empty, S_UpTo }
PlayerCores    == { <<"1">>, <<"4">>, <<"1","8">>, <<"2","-","4">>, <<"1","-","1","6">>,
                    <<"M","a","n","y">>, S_Empty }
PlayerSuffixes == { S_Empty, S_Player, S_Players }
PlayerTexts    == { p \o c \o x : p \in PlayerPrefixes, c \in PlayerCores, x \in PlayerSuffixes }

\* Data pages with one text in both fields, or in one field only.
PlayerDataPages ==
    { DataPage(t, t) : t \in PlayerTexts }
    \cup { DataPage(t, PyNone) : t \in PlayerTexts }
    \cup { DataPage(PyNone, t) : t \in PlayerTexts }

\* Detail pages on which any subset of the eight patterns matches, and data
\* pages on which any subset of the two player-count patterns matches.
DetailFields == { "release", "genre", "dev_a", "dev_b", "plot", "rating", "esrb", "metacritic" }

FieldDetailPages ==
    { DetailPage(IF "release" \in present THEN <<"M","a","y"," ","1",","," ","1","9","8","7">> ELSE PyNone,
                 IF "genre" \in present THEN <<"A","c","t","i","o","n">> ELSE PyNone,
                 IF "dev_a" \in present THEN <<"K","o","n","a","m","i">> ELSE PyNone,
                 IF "dev_b" \in present THEN <<"N","i","n","t","e","n","d","o">> ELSE PyNone,
                 IF "plot" \in present THEN <<"W","h","i","p"," ","<","b",">","i","t","<","/","b",">">> ELSE PyNone,
                 IF "rating" \in present THEN <<"4",".","1">> ELSE PyNone,
                 IF "esrb" \in present THEN <<"e","s","r","b","_","l","o","g","o","_","t">> ELSE PyNone,
                 IF "metacritic" \in present THEN << <<"/","m","c">>, <<"8","5">> >> ELSE PyNone) :
        present \in SUBSET DetailFields }

FieldDataPages ==
    { DataPage(local, online) :
        local \in { PyNone, <<"2","-","4"," ","P","l","a","y","e","r","s">> },
        online \in { PyNone, <<"U","p"," ","t","o"," ","1","8"," ","P","l","a","y","e","r","s">> } }

\* ESRB class texts: a short code, of the table or not, with and without the
\* 'esrb_logo_' in front of it; and detail pages with such a text or none.
EsrbCodes ==
    { <<"e">>, <<"e","c">>, <<"e","1","0">>, <<"t">>, <<"m">>, <<"a","o">>,
      <<"x">>, <<"E">>, <<"e","1">>, <<"t","m">>, <<"r","p">>, S_Empty }

EsrbTexts == EsrbCodes \cup { S_EsrbLogo \o c : c \in EsrbCodes }

EsrbDetailPages ==
    { DetailPage(PyNone, PyNone, PyNone, PyNone, PyNone, PyNone, e, PyNone) :
        e \in EsrbTexts \cup { PyNone } }

\* self.candidate as the search produced it: the fields the scraper reads.
Candidates ==
    { [id |-> C_Id1, game_name |-> T_Castlevania],
      [id |-> C_Id2, game_name |-> T_Zelda] }

CacheKeys == { "rom-a", "rom-b" }

---------------------------------------------------------------------------
(* The scraper instance: state after construction and the public operations *)

NoCache == << >>

InitScraper ==
    /\ scraper_disabled \in BOOLEAN
    /\ status_dic = [status |-> TRUE]
    /\ disk_cache = NoCache
    /\ all_asset_cache = NoCache
    /\ net_log = [c \in CandidateIds |-> 0]
    /\ retrievals = [c \in CandidateIds |-> 0]
    /\ meta_returns = [k \in CacheKeys |-> {}]
    /\ ret = [op |-> "__init__"]

IdleClassifier == cl = [header |-> S_Empty, done |-> FALSE, out |-> NoKinds]
IdleMapper     == pm = [op |-> "idle"]

\* get_candidates of an enabled scraper on the page the search request serves.
get_candidates_enabled(search_term, platform, page) ==
    LET scraper_platform == convert_AKL_platform_to_GameFaqs(platform)
        game_list == _get_candidates_from_page(search_term, scraper_platform, page)
    IN  IF game_list.raised # "" THEN game_list
        ELSE Returned(sort_by_order(game_list.value))

\* The search keeps nothing on the instance, so a run makes one stateless call,
\* from the state after construction.
Fresh == ret.op = "__init__"

get_candidates ==
    /\ Fresh
    /\ \E search_term \in SearchTerms, platform \in SearchPlatforms, sd \in StatusDics :
        /\ status_dic' = sd
        /\ IF scraper_disabled
           THEN ret' = [ op |-> "get_candidates", entry_status |-> sd.status, search_term |-> search_term,
                         platform |-> platform, page |-> << >>, http_code |-> 0,
                         out |-> ReturnedNone, fetches |-> 0 ]
           ELSE \E page \in SearchPages, http_code \in HttpCodes :
                    ret' = [ op |-> "get_candidates", entry_status |-> sd.status, search_term |-> search_term,
                             platform |-> platform, page |-> page,
                             http_code |-> http_code,
                             out |-> get_candidates_enabled(search_term, platform, page),
                             fetches |-> 2 ]
    /\ UNCHANGED << scraper_disabled, disk_cache, all_asset_cache, net_log,
                    retrievals, meta_returns, cl, pm >>

\* The effect of get_metadata on an enabled scraper; the pages and their status
\* codes are read on a cache miss only.
get_metadata_step(candidate, cache_key, sd, page_data, http_code, data_page_data, data_http_code) ==
    LET r == get_metadata_enabled(disk_cache, cache_key, candidate,
                                  page_data, data_page_data)
    IN  /\ ret' = [ op |-> "get_metadata", entry_status |-> sd.status, candidate |-> candidate,
                    cache_key |-> cache_key, hit |-> cache_key \in DOMAIN disk_cache,
                    page |-> page_data, http_code |-> http_code,
                    data_page |-> data_page_data, data_http_code |-> data_http_code,
                    out |-> Returned(r.game_data), fetches |-> r.fetched ]
        /\ disk_cache' = r.cache
        /\ meta_returns' = [meta_returns EXCEPT ![cache_key] = @ \cup { r.game_data }]

NoPage == << >>

\* get_metadata over the candidates, cache keys and pages given.
get_metadata(Cands, Keys, Details, Datas) ==
    \E candidate \in Cands, cache_key \in Keys, sd \in StatusDics :
        /\ status_dic' = sd
        /\ IF scraper_disabled
           THEN /\ ret' = [ op |-> "get_metadata", entry_status |-> sd.status, candidate |-> candidate,
                            cache_key |-> cache_key, hit |-> FALSE,
                            page |-> NoPage, http_code |-> 0,
                            data_page |-> NoPage, data_http_code |-> 0,
                            out |-> Returned(_new_gamedata_dic), fetches |-> 0 ]
                /\ UNCHANGED << disk_cache, meta_returns >>
           ELSE IF cache_key \in DOMAIN disk_cache
           THEN get_metadata_step(candidate, cache_key, sd, NoPage, 0, NoPage, 0)
           ELSE \E page_data \in Details, data_page_data \in Datas,
                   http_code \in HttpCodes, data_http_code \in HttpCodes :
                    get_metadata_step(candidate, cache_key, sd, page_data, http_code,
                                      data_page_data, data_http_code)
        /\ UNCHANGED << scraper_disabled, all_asset_cache, net_log, retrievals, cl, pm >>

\* The effect of get_assets on an enabled scraper; the listing page and its
\* status code are read on a cache miss only.
get_assets_step(cid, asset_info_id, sd, page, http_code) ==
    LET r == _retrieve_all_assets(all_asset_cache, cid, page)
    IN  /\ ret' = [ op |-> "get_assets", entry_status |-> sd.status, candidate |-> cid,
                    asset_info_id |-> asset_info_id,
                    hit |-> cid \in DOMAIN all_asset_cache,
                    page |-> page, http_code |-> http_code,
                    batch |-> r.asset_list,
                    out |-> IF ~sd.status THEN ReturnedNone
                            ELSE Returned(filter_assets(r.asset_list, asset_info_id)),
                    fetches |-> r.fetched ]
        /\ all_asset_cache' = r.cache
        /\ net_log' = [net_log EXCEPT ![cid] = @ + r.fetched]
        /\ retrievals' = [retrievals EXCEPT ![cid] = @ + 1]

\* get_assets over the candidate ids and listing pages given.
get_assets(Ids, Pages) ==
    \E cid \in Ids, asset_info_id \in AssetKinds, sd \in StatusDics :
        /\ status_dic' = sd
        /\ IF scraper_disabled
           THEN /\ ret' = [ op |-> "get_assets", entry_status |-> sd.status, candidate |-> cid,
                            asset_info_id |-> asset_info_id, hit |-> FALSE,
                            page |-> NoPage, http_code |-> 0, batch |-> << >>,
                            out |-> Returned(<< >>), fetches |-> 0 ]
                /\ UNCHANGED << all_asset_cache, net_log, retrievals >>
           ELSE /\ retrievals[cid] < MaxCalls
                /\ IF cid \in DOMAIN all_asset_cache
                   THEN get_assets_step(cid, asset_info_id, sd, NoPage, 0)
                   ELSE \E page \in Pages, http_code \in HttpCodes :
                            get_assets_step(cid, asset_info_id, sd, page, http_code)
        /\ UNCHANGED << scraper_disabled, disk_cache, meta_returns, cl, pm >>

\* resolve_asset_URL: no test of scraper_disabled, one fetch of the detail page.
resolve_asset_URL ==
    /\ Fresh
    /\ \E selected_asset \in SelectedAssets, sd \in StatusDics,
          images_on_page \in ImagePages, http_code \in HttpCodes :
        /\ status_dic' = sd
        /\ ret' = [ op |-> "resolve_asset_URL", entry_status |-> sd.status, selected_asset |-> selected_asset,
                    page |-> images_on_page, http_code |-> http_code,
                    out |-> resolve_scan(images_on_page, selected_asset.asset_ID),
                    fetches |-> 1 ]
    /\ UNCHANGED << scraper_disabled, disk_cache, all_asset_cache, net_log,
                    retrievals, meta_returns, cl, pm >>

resolve_asset_URL_extension ==
    /\ Fresh
    /\ \E selected_asset \in SelectedAssets, sd \in StatusDics,
          image_url \in { U_Front, U_Back, U_NoExt, S_Empty } :
        /\ status_dic' = sd
        /\ ret' = [ op |-> "resolve_asset_URL_extension", entry_status |-> sd.status,
                    selected_asset |-> selected_asset, image_url |-> image_url,
                    out |-> Returned(get_URL_extension(image_url)), fetches |-> 0 ]
    /\ UNCHANGED << scraper_disabled, disk_cache, all_asset_cache, net_log,
                    retrievals, meta_returns, cl, pm >>

---------------------------------------------------------------------------
(* The classifier and the platform converters applied on their own *)

MaxHeaderWords == 2

HeaderWords ==
    { S_Screenshots, S_BoxBack, S_BoxFront, S_Box, S_Video, H_GameBoxShots,
      H_ReaderScreenshots, <<"b","o","x"," ","b","a","c","k">>, <<"A","r","t"," ">> }

\* Every header made of at most MaxHeaderWords of the words, in any order.
Headers == { Join(ws) : ws \in SeqsUpTo(HeaderWords, MaxHeaderWords) }

InitClassifier == cl \in { [header |-> h, done |-> FALSE, out |-> NoKinds] : h \in Headers }

parse_asset_type ==
    /\ ~cl.done
    /\ cl' = [cl EXCEPT !.done = TRUE, !.out = _parse_asset_type(cl.header)]
    /\ UNCHANGED << scraper_disabled, status_dic, disk_cache, all_asset_cache,
                    net_log, retrievals, meta_returns, ret, pm >>

MaxSiteCode == 130

TableNames ==
    { AKL_compact_platform_GameFaqs_mapping[i][1] :
        i \in DOMAIN AKL_compact_platform_GameFaqs_mapping }

\* Platforms of the host: every name of the table, names known by alias, unknown names.
HostPlatforms ==
    { Platform(n, PyNone) : n \in TableNames }
    \cup { Platform(<<"f","a","m","i","c","o","m">>, <<"n","e","s">>),
           Platform(<<"t","g","1","6">>, <<"p","c","e">>),
           Platform(<<"g","e","n","e","s","i","s">>, <<"m","e","g","a","d","r","i","v","e">>),
           Platform(<<"f","o","o">>, <<"b","a","r">>),
           Platform(PLATFORM_UNKNOWN_COMPACT, PyNone) }

to_site_code ==
    /\ pm.op = "idle"
    /\ \E p \in HostPlatforms :
           pm' = [ op |-> "convert_AKL_platform_to_GameFaqs", platform |-> p,
                   code |-> convert_AKL_platform_to_GameFaqs(p),
                   name |-> p.compact_name ]
    /\ UNCHANGED << scraper_disabled, status_dic, disk_cache, all_asset_cache,
                    net_log, retrievals, meta_returns, ret, cl >>

to_host_platform ==
    /\ pm.op = "idle"
    /\ \E c \in 0..MaxSiteCode :
           pm' = [ op |-> "convert_GameFaqs_platform_to_AKL_platform",
                   platform |-> Platform(PLATFORM_UNKNOWN_COMPACT, PyNone),
                   code |-> c,
                   name |-> convert_GameFaqs_platform_to_AKL_platform(c) ]
    /\ UNCHANGED << scraper_disabled, status_dic, disk_cache, all_asset_cache,
                    net_log, retrievals, meta_returns, ret, cl >>

---------------------------------------------------------------------------
(* Specifications *)

Init == InitScraper /\ IdleClassifier /\ IdleMapper

\* The search on its own.
NextSearch == get_candidates
SpecSearch == Init /\ [][NextSearch]_vars

\* Metadata requests over two cache keys.
NextMetadata == get_metadata(Candidates, CacheKeys, DetailPages, DataPages)
SpecMetadata == Init /\ [][NextMetadata]_vars

\* One metadata request, then cache hits, over every player-count text.
P_Candidate == [id |-> C_Id1, game_name |-> T_Castlevania]
P_Detail    == DetailPage(PyNone, PyNone, PyNone, PyNone, PyNone, PyNone, PyNone, PyNone)
NextPlayers == get_metadata({ P_Candidate }, { "rom-a" }, { P_Detail }, PlayerDataPages)
SpecPlayers == Init /\ [][NextPlayers]_vars

\* One metadata request, then cache hits, over every subset of matching patterns.
NextFields == get_metadata({ P_Candidate }, { "rom-a" }, FieldDetailPages, FieldDataPages)
SpecFields == Init /\ [][NextFields]_vars

\* One metadata request, then cache hits, over every ESRB text.
NextEsrb == get_metadata({ P_Candidate }, { "rom-a" }, EsrbDetailPages, { DataPage(PyNone, PyNone) })
SpecEsrb == Init /\ [][NextEsrb]_vars

\* Metadata and asset requests for one candidate, failed fetches included.
NextMemo ==
    \/ get_metadata({ P_Candidate }, { "rom-a" }, DetailPages, DataPages)
    \/ get_assets({ C_Id1 }, CachePages)
SpecMemo == Init /\ [][NextMemo]_vars

\* Asset requests for two candidates, over a few listing pages.
NextAssets == get_assets(CandidateIds, CachePages)
SpecAssets == Init /\ [][NextAssets]_vars

\* Asset requests for one candidate, over every listing page of the bounds.
NextListing == get_assets({ C_Id1 }, ListingPages)
SpecListing == Init /\ [][NextListing]_vars

\* Full-size image resolution.
NextResolve == resolve_asset_URL \/ resolve_asset_URL_extension
SpecResolve == Init /\ [][NextResolve]_vars

\* The classifier on every header of the bounds.
InitClassify == InitScraper /\ InitClassifier /\ IdleMapper
SpecClassify == InitClassify /\ [][parse_asset_type]_vars

\* The platform converters.
NextPlatform == to_site_code \/ to_host_platform
SpecPlatform == Init /\ [][NextPlatform]_vars

---------------------------------------------------------------------------
(* Properties *)

\* The last call returned a value (neither None nor an exception).
ReturnedValue(op) == ret.op = op /\ ret.out.raised = "" /\ ~ret.out.none

\* The place on the results page of the row with this data-pid.
PagePos(page, id) == CHOOSE i \in DOMAIN page : page[i].pid = id

BoolToInt(b) == IF b THEN 1 ELSE 0

\* C1: the candidates get_candidates returns are every row of the page, ordered
\* by non-increasing score, and two candidates of equal score stand in the order
\* their rows have on the page.
C1_SortedStable ==
    ReturnedValue("get_candidates") =>
        LET r == ret.out.value
        IN  /\ Len(r) = Len(ret.page)
            /\ \A i \in DOMAIN r : \E k \in DOMAIN ret.page : ret.page[k].pid = r[i].id
            /\ \A i, j \in DOMAIN r :
                   i < j =>
                     /\ r[i].order >= r[j].order
                     /\ r[i].order = r[j].order =>
                            PagePos(ret.page, r[i].id) < PagePos(ret.page, r[j].id)

\* A page of three rows whose last row outranks two rows of equal score: the
\* sort moved it to the front and left the tie in page order.
C1_Witness ==
    /\ ReturnedValue("get_candidates")
    /\ Len(ret.out.value) = 3
    /\ ret.out.value[1].order > ret.out.value[2].order
    /\ ret.out.value[2].order = ret.out.value[3].order
    /\ ret.out.value[1].id = ret.page[3].pid
    /\ ret.out.value[2].id = ret.page[1].pid

\* C2: a candidate's score is 1, plus 1 when its title equals the query without
\* regard to case, plus 1 when its title contains the query without regard to
\* case, plus 1 when a platform was asked for (site code not 0) and the row's
\* platform code is that code; so the score is in 1..4, a title equal to the
\* query scores 3 with no platform asked for and 4 on the platform asked for.
C2_Score ==
    ReturnedValue("get_candidates") =>
        LET r     == ret.out.value
            code  == convert_AKL_platform_to_GameFaqs(ret.platform)
            query == Lower(ret.search_term)
        IN  \A i \in DOMAIN r :
                LET title  == Lower(r[i].game_name)
                    equal  == title = query
                    within == Contains(title, query)
                    onplat == code # 0 /\ r[i].platform = code
                IN  /\ r[i].order = 1 + BoolToInt(equal) + BoolToInt(within)
                                      + BoolToInt(onplat)
                    /\ r[i].order \in 1..4
                    /\ (equal /\ code = 0) => r[i].order = 3
                    /\ (equal /\ code # 0 /\ r[i].platform = code) => r[i].order = 4

\* A search for a platform that returned a candidate of score 4 and one of score 2.
C2_Witness ==
    /\ ReturnedValue("get_candidates")
    /\ convert_AKL_platform_to_GameFaqs(ret.platform) # 0
    /\ \E i, j \in DOMAIN ret.out.value :
           /\ ret.out.value[i].order = 4
           /\ Lower(ret.out.value[i].game_name) = Lower(ret.search_term)
           /\ ret.out.value[j].order = 2

\* C3: get_metadata of an enabled scraper is idempotent per cache key: every
\* call made with one key returns the same record; a call that misses the cache
\* makes two fetches (detail page, data page) and has stored the record it
\* returns under the key when it returns; a call that hits makes no fetch.
C3_Idempotent ==
    /\ \A k \in CacheKeys : Cardinality(meta_returns[k]) <= 1
    /\ (ReturnedValue("get_metadata") /\ ~scraper_disabled) =>
           /\ ret.cache_key \in DOMAIN disk_cache
           /\ disk_cache[ret.cache_key] = ret.out.value
           /\ meta_returns[ret.cache_key] = { ret.out.value }
           /\ ret.hit => ret.fetches = 0
           /\ ~ret.hit => ret.fetches = 2

\* A second call with a key, for the other candidate, served from the cache.
C3_Witness ==
    /\ ReturnedValue("get_metadata")
    /\ ~scraper_disabled
    /\ ret.hit
    /\ ret.fetches = 0
    /\ ret.out.value.title # ret.candidate.game_name
    /\ DOMAIN disk_cache = CacheKeys

\* C4: within one run, however many asset requests reach _retrieve_all_assets
\* for a candidate id and whatever kinds they ask for, the images-listing page
\* of that id has been fetched exactly once: the first request fetches it and
\* memoizes the parsed batch under the id, every later one reuses that batch
\* and fetches nothing.
C4_FetchedOnce ==
    /\ \A cid \in CandidateIds :
           /\ retrievals[cid] = 0 => (net_log[cid] = 0 /\ cid \notin DOMAIN all_asset_cache)
           /\ retrievals[cid] >= 1 => (net_log[cid] = 1 /\ cid \in DOMAIN all_asset_cache)
    /\ (ret.op = "get_assets" /\ ~scraper_disabled) =>
           /\ all_asset_cache[ret.candidate] = ret.batch
           /\ ret.hit => ret.fetches = 0
           /\ ~ret.hit => (ret.fetches = 1 /\ ret.batch = _load_assets_from_page(ret.page))

\* Both candidates have been asked for, one of them more than once and for a
\* kind that its batch holds, and the last request was served from the cache.
C4_Witness ==
    /\ ret.op = "get_assets"
    /\ ret.hit
    /\ retrievals[ret.candidate] >= 2
    /\ net_log[ret.candidate] = 1
    /\ \A cid \in CandidateIds : retrievals[cid] >= 1
    /\ ReturnedValue("get_assets")
    /\ ret.out.value # << >>

\* The empty or default result of each public operation.
EmptyResult(op) ==
    IF op = "get_candidates" THEN Returned(<< >>)
    ELSE IF op = "get_metadata" THEN Returned(_new_gamedata_dic)
    ELSE IF op = "get_assets" THEN Returned(<< >>)
    ELSE IF op = "resolve_asset_URL" THEN Returned(<< S_Empty, S_Empty >>)
    ELSE Returned(S_Empty)

\* C5: on a disabled scraper every public operation returns its empty or
\* default result and makes no network fetch.
C5_DisabledShortCircuit ==
    (scraper_disabled /\ ret.op # "__init__") =>
        /\ ret.fetches = 0
        /\ ret.out = EmptyResult(ret.op)

\* C6: a search whose request ends with a status other than 200 records the
\* failure in the caller's status object and returns the empty sequence,
\* without raising, whatever the body holds.
C6_NonSuccessEmpty ==
    (ret.op = "get_candidates" /\ ~scraper_disabled /\ ret.http_code # 200
        /\ ret.entry_status) =>
        /\ ~status_dic.status
        /\ ret.out = Returned(<< >>)

\* No image of the detail page has a kind set that holds the kind asked for.
NoImageMatches(images_on_page, asset_id) ==
    \A i \in DOMAIN images_on_page :
        LET kinds == _parse_asset_type(images_on_page[i].alt)
        IN  kinds = NoKinds \/ \A k \in DOMAIN kinds.items : kinds.items[k] # asset_id

\* C7: resolve_asset_URL returns ('', '') and raises nothing whenever no image
\* of the detail page has a kind set holding the kind asked for, excluded
\* ("Video") alt texts included.
C7_NoMatchEmpty ==
    (ret.op = "resolve_asset_URL"
        /\ NoImageMatches(ret.page, ret.selected_asset.asset_ID)) =>
        ret.out = Returned(<< S_Empty, S_Empty >>)

\* The forward table's entries whose site code is c.
EntriesOf(c) ==
    { i \in DOMAIN AKL_compact_platform_GameFaqs_mapping :
        AKL_compact_platform_GameFaqs_mapping[i][2] = c }

\* C8 as stated: for every entry (n, c) of the forward table the inverse table
\* maps c back to n, and the forward table maps that name to c again.
C8_MutualInverses ==
    pm.op = "convert_GameFaqs_platform_to_AKL_platform" =>
        \A i \in EntriesOf(pm.code) :
            /\ pm.name = AKL_compact_platform_GameFaqs_mapping[i][1]
            /\ DictGet(AKL_compact_platform_GameFaqs_mapping, pm.name) = pm.code

\* C8 amended: for every site code c of the forward table the inverse table
\* maps c to a name of the forward table whose code is c again; of the entries
\* (n, c) that share the code c it is the last one in table order whose name
\* comes back, so an entry maps back to its own name exactly when no later
\* entry has its code.
C8_InverseIsLastEntry ==
    (pm.op = "convert_GameFaqs_platform_to_AKL_platform" /\ EntriesOf(pm.code) # {}) =>
        /\ DictHas(AKL_compact_platform_GameFaqs_mapping, pm.name)
        /\ DictGet(AKL_compact_platform_GameFaqs_mapping, pm.name) = pm.code
        /\ \A i \in EntriesOf(pm.code) :
               pm.name = AKL_compact_platform_GameFaqs_mapping[i][1]
                   <=> \A j \in EntriesOf(pm.code) : j <= i

\* The code shared by 'msx' and 'msx2' has been mapped back, to 'msx2'.
C8_Witness ==
    /\ pm.op = "convert_GameFaqs_platform_to_AKL_platform"
    /\ Cardinality(EntriesOf(pm.code)) = 2
    /\ pm.name = <<"m","s","x","2">>
    /\ DictGet(AKL_compact_platform_GameFaqs_mapping, <<"m","s","x">>) = pm.code

\* The listing page of the last request holds one block, classified as
\* screenshots, with at least one image link, one of which carries the marker.
OneScreenshotBlock ==
    /\ ret.op = "get_assets"
    /\ ~scraper_disabled
    /\ ~ret.hit
    /\ Len(ret.page) = 1
    /\ _parse_asset_type(ret.page[1].title) = KindList(<< ASSET_SNAP_ID, ASSET_TITLE_ID >>)
    /\ Len(ret.page[1].links) >= 1
    /\ \E i \in DOMAIN ret.page[1].links : Contains(ret.page[1].links[i].lnk, S_ImgMarker)

\* C9: of the image links of a screenshot block exactly one is emitted as a
\* Title asset and every other one as a Snapshot asset; each link is emitted
\* once, none as both kinds and none dropped.
C9_ExactlyOneTitle ==
    OneScreenshotBlock =>
        /\ Len(ret.batch) = Len(ret.page[1].links)
        /\ \A i \in DOMAIN ret.batch :
               /\ ret.batch[i].url = ret.page[1].links[i].lnk
               /\ ret.batch[i].asset_ID \in { ASSET_TITLE_ID, ASSET_SNAP_ID }
        /\ Cardinality({ i \in DOMAIN ret.batch : ret.batch[i].asset_ID = ASSET_TITLE_ID }) = 1

\* The kind set the classifier returned, or "excluded" for None.
KindSet(out) ==
    IF out = NoKinds THEN { "excluded" }
    ELSE { out.items[i] : i \in DOMAIN out.items }

\* C10: the classifier answers by the first of these tests that the text
\* passes: holds "Screenshots", {Snapshot, Title}; holds "Box Back", {BoxBack};
\* holds "Box Front", {BoxFront}; holds "Box", {BoxFront, BoxBack}; holds
\* "Video", excluded; none of them, {Snapshot}.  So "GameFAQs Reader
\* Screenshots" gives {Snapshot, Title}, "Game Box Shots" {BoxFront, BoxBack}
\* and "Box Back" {BoxBack}.
C10_FirstMatch ==
    cl.done =>
        LET h     == cl.header
            kinds == KindSet(cl.out)
            shots == Contains(h, S_Screenshots)
            back  == Contains(h, S_BoxBack)
            front == Contains(h, S_BoxFront)
            box   == Contains(h, S_Box)
            video == Contains(h, S_Video)
        IN  /\ shots => kinds = { ASSET_SNAP_ID, ASSET_TITLE_ID }
            /\ (~shots /\ back) => kinds = { ASSET_BOXBACK_ID }
            /\ (~shots /\ ~back /\ front) => kinds = { ASSET_BOXFRONT_ID }
            /\ (~shots /\ ~back /\ ~front /\ box) =>
                   kinds = { ASSET_BOXFRONT_ID, ASSET_BOXBACK_ID }
            /\ (~shots /\ ~box /\ video) => kinds = { "excluded" }
            /\ (~shots /\ ~box /\ ~video) => kinds = { ASSET_SNAP_ID }
            /\ h = H_ReaderScreenshots => kinds = { ASSET_SNAP_ID, ASSET_TITLE_ID }
            /\ h = H_GameBoxShots => kinds = { ASSET_BOXFRONT_ID, ASSET_BOXBACK_ID }
            /\ h = S_BoxBack => kinds = { ASSET_BOXBACK_ID }

\* A header that passes three of the tests, "Video" then "Box Front", has been
\* classified by the earliest of them in the order of the tests.
C10_Witness ==
    /\ cl.done
    /\ cl.header = S_Video \o S_BoxFront
    /\ cl.out = KindList(<< ASSET_BOXFRONT_ID >>)

\* s without the text suf at its end, s itself when it does not end with suf.
StripSuffix(s, suf) ==
    IF Len(s) >= Len(suf) /\ SubSeq(s, Len(s) - Len(suf) + 1, Len(s)) = suf
    THEN SubSeq(s, 1, Len(s) - Len(suf)) ELSE s

\* s without the text pre at its start, s itself when it does not start with pre.
StripPrefix(s, pre) ==
    IF Len(s) >= Len(pre) /\ SubSeq(s, 1, Len(pre)) = pre
    THEN SubSeq(s, Len(pre) + 1, Len(s)) ELSE s

\* The places of s where a range N-M has its dash.
RangeDashes(s) ==
    { i \in 2..(Len(s) - 1) : s[i] = "-" /\ s[i - 1] \in Digits /\ s[i + 1] \in Digits }

\* The normalized player count of a field text, as C11 states it.
NormalizedPlayers(field_text) ==
    LET rest == StripPrefix(StripSuffix(StripSuffix(field_text, S_Players), S_Player), S_UpTo)
    IN  IF rest # S_Empty /\ \A i \in DOMAIN rest : rest[i] \in Digits THEN rest
        ELSE IF RangeDashes(rest) # {}
        THEN LET d == CHOOSE i \in RangeDashes(rest) : \A j \in RangeDashes(rest) : i <= j
                 e == CHOOSE k \in d..Len(rest) :
                        /\ \A m \in (d + 1)..k : rest[m] \in Digits
                        /\ (k = Len(rest) \/ rest[k + 1] \notin Digits)
                        /\ k > d
             IN  SubSeq(rest, d + 1, e)
        ELSE DEFAULT_META_NPLAYERS

\* The last call was a get_metadata of an enabled scraper that missed the cache.
MetadataMiss == ret.op = "get_metadata" /\ ~scraper_disabled /\ ~ret.hit

\* C11: the local and the online player count of the record are the field's
\* text without its " Player"/" Players" suffix and without a leading "Up to ":
\* that remainder when it is numeric, else the upper bound M of the range N-M it
\* holds, else the default player count.  "2-4 Players" gives "4", "1 Player"
\* gives "1", "Up to 4 Players" gives "4".
C11_PlayerCount ==
    MetadataMiss =>
        /\ ret.data_page.local # PyNone =>
               ret.out.value.nplayers = NormalizedPlayers(ret.data_page.local)
        /\ ret.data_page.online # PyNone =>
               ret.out.value.nplayers_online = NormalizedPlayers(ret.data_page.online)
        /\ ret.data_page.local = PyNone => ret.out.value.nplayers = DEFAULT_META_NPLAYERS
        /\ ret.data_page.online = PyNone => ret.out.value.nplayers_online = DEFAULT_META_NPLAYERS

\* The online half of C11 on its own.
C11_OnlineOnly ==
    MetadataMiss =>
        /\ ret.data_page.online # PyNone =>
               ret.out.value.nplayers_online = NormalizedPlayers(ret.data_page.online)
        /\ ret.data_page.online = PyNone => ret.out.value.nplayers_online = DEFAULT_META_NPLAYERS

\* The fields of the record but the rating, on a page of FieldDetailPages and a
\* data page of FieldDataPages: the default of each absent field, the extracted
\* value of each present one.
FieldsButRating ==
    LET page == ret.page
        data == ret.data_page
        out  == ret.out.value
    IN  /\ out.title = ret.candidate.game_name
        /\ out.year = (IF page.release = PyNone THEN S_Empty ELSE <<"1","9","8","7">>)
        /\ out.genre = (IF page.genre = PyNone THEN S_Empty ELSE <<"A","c","t","i","o","n">>)
        /\ out.developer = (IF page.dev_a # PyNone THEN <<"K","o","n","a","m","i">>
                            ELSE IF page.dev_b # PyNone THEN <<"N","i","n","t","e","n","d","o">>
                            ELSE S_Empty)
        /\ out.plot = (IF page.plot = PyNone THEN S_Empty ELSE <<"W","h","i","p"," ","i","t">>)
        /\ out.esrb = (IF page.esrb = PyNone THEN ESRB_PENDING ELSE ESRB_TEEN)
        /\ out.nplayers = (IF data.local = PyNone THEN DEFAULT_META_NPLAYERS ELSE <<"4">>)
        /\ out.nplayers_online = (IF data.online = PyNone THEN DEFAULT_META_NPLAYERS
                                  ELSE <<"1","8">>)
        /\ DictHas(out.extra, "metacritics") <=> page.metacritic # PyNone
        /\ page.metacritic # PyNone => DictGet(out.extra, "metacritics") = <<"8","5">>

\* C12: whichever of the patterns are absent from the two pages, get_metadata
\* returns a record in which every absent field has its documented default
\* (the empty string, Pending for the ESRB rating, the default player count)
\* and every present field its extracted value.
C12_IndependentDefaults ==
    MetadataMiss =>
        /\ ReturnedValue("get_metadata")
        /\ FieldsButRating
        /\ ret.out.value.rating = (IF ret.page.rating = PyNone THEN S_Empty ELSE <<"4",".","1">>)

\* C12 for every field but the rating, and the rating where its pattern matches.
C12_ButAbsentRating ==
    MetadataMiss =>
        /\ ReturnedValue("get_metadata")
        /\ FieldsButRating
        /\ ret.page.rating # PyNone => ret.out.value.rating = <<"4",".","1">>

\* The table of C13: short code and category.
EsrbTable ==
    { << <<"e">>, ESRB_EVERYONE >>, << <<"e","c">>, ESRB_EARLY >>,
      << <<"e","1","0">>, ESRB_EVERYONE_10 >>, << <<"t">>, ESRB_TEEN >>,
      << <<"m">>, ESRB_MATURE >>, << <<"a","o">>, ESRB_ADULTS_ONLY >> }

\* C13: the ESRB rating of the record is the category the table gives for the
\* short code of the page's ESRB element (e Everyone, ec Early-Childhood, e10
\* Everyone10+, t Teen, m Mature, ao Adults-Only), and Pending for every code
\* outside the table and for a page without the element.
C13_EsrbTable ==
    MetadataMiss =>
        LET code == IF ret.page.esrb = PyNone THEN PyNone
                    ELSE StripPrefix(ret.page.esrb, S_EsrbLogo)
            rows == { row \in EsrbTable : row[1] = code }
        IN  /\ \A row \in rows : ret.out.value.esrb = row[2]
            /\ rows = {} => ret.out.value.esrb = ESRB_PENDING

\* The code e10, which starts like the codes e and e1, has been mapped to
\* Everyone10+.
C13_Witness ==
    /\ MetadataMiss
    /\ ret.page.esrb = S_EsrbLogo \o <<"e","1","0">>
    /\ ret.out.value.esrb = ESRB_EVERYONE_10

\* The site codes the forward table lists for a compact name.
CodesOf(name) ==
    { AKL_compact_platform_GameFaqs_mapping[i][2] :
        i \in { j \in DOMAIN AKL_compact_platform_GameFaqs_mapping :
                  AKL_compact_platform_GameFaqs_mapping[j][1] = name } }

\* C14: both lookups answer for every input.  The site code of a platform is
\* the table's code of its compact name when the table has that name, else the
\* table's code of its declared alias when it has an alias and the table has
\* it, else 0.  The platform of a site code is a platform the table maps to
\* that code when there is one, else the unknown platform.
C14_TotalLookups ==
    /\ pm.op = "convert_AKL_platform_to_GameFaqs" =>
           LET p == pm.platform
               by_name  == CodesOf(p.compact_name)
               by_alias == IF p.aliasof = PyNone THEN {} ELSE CodesOf(p.aliasof)
           IN  /\ pm.code \in 0..MaxSiteCode
               /\ by_name # {} => pm.code \in by_name
               /\ (by_name = {} /\ by_alias # {}) => pm.code \in by_alias
               /\ (by_name = {} /\ by_alias = {}) => pm.code = 0
    /\ pm.op = "convert_GameFaqs_platform_to_AKL_platform" =>
           /\ EntriesOf(pm.code) # {} => pm.code \in CodesOf(pm.name)
           /\ EntriesOf(pm.code) = {} => pm.name = PLATFORM_UNKNOWN_COMPACT

\* A platform whose own name the table lacks got the code of its alias.
C14_Witness ==
    /\ pm.op = "convert_AKL_platform_to_GameFaqs"
    /\ CodesOf(pm.platform.compact_name) = {}
    /\ pm.platform.aliasof # PyNone
    /\ pm.code # 0
    /\ pm.code \in CodesOf(pm.platform.aliasof)

\* The listing page of the last request holds one block.
OneBlock ==
    /\ ret.op = "get_assets"
    /\ ~scraper_disabled
    /\ ~ret.hit
    /\ Len(ret.page) = 1

\* The batch is one asset per link of the block and per kind of kinds, link by
\* link in page order and, for one link, in the order of kinds.
OnePerKind(batch, links, kinds) ==
    /\ Len(batch) = Len(links) * Len(kinds)
    /\ \A i \in DOMAIN links : \A k \in DOMAIN kinds :
           LET asset == batch[(i - 1) * Len(kinds) + k]
           IN  /\ asset.asset_ID = kinds[k]
               /\ asset.url = links[i].lnk
               /\ asset.url_thumb = links[i].thumb

\* C15: a block whose title classifies to kinds without Title (Box Front, Box
\* Back, both for a generic Box, Snapshot for any other title) yields, for each
\* of its image entries in page order, one asset per kind, whatever the link
\* of the entry looks like; a block whose title classifies as Video yields no
\* asset.
C15_OnePerKind ==
    OneBlock =>
        LET kinds == _parse_asset_type(ret.page[1].title)
        IN  /\ kinds = NoKinds => ret.batch = << >>
            /\ (kinds # NoKinds /\ ASSET_TITLE_ID \notin KindSet(kinds)) =>
                   OnePerKind(ret.batch, ret.page[1].links, kinds.items)

\* C15 for the blocks that are not a Snapshot block with a link holding the
\* marker of the first image.
C15_ButMarkedSnapshots ==
    OneBlock =>
        LET kinds == _parse_asset_type(ret.page[1].title)
            links == ret.page[1].links
        IN  /\ kinds = NoKinds => ret.batch = << >>
            /\ (/\ kinds # NoKinds
                /\ ASSET_TITLE_ID \notin KindSet(kinds)
                /\ ~(/\ ASSET_SNAP_ID \in KindSet(kinds)
                     /\ \E i \in DOMAIN links : Contains(links[i].lnk, S_ImgMarker))) =>
                   OnePerKind(ret.batch, links, kinds.items)

\* C16: a get_metadata whose detail-page fetch or data-page fetch ends with a
\* status other than 200 records the failure in the caller's status object and
\* returns the default record, without raising.
C16_MetadataFailureRecorded ==
    (MetadataMiss /\ ret.entry_status
        /\ (ret.http_code # 200 \/ ret.data_http_code # 200)) =>
        /\ ~status_dic.status
        /\ ret.out = EmptyResult("get_metadata")

\* The places of the detail page's images whose kind set holds the kind.
MatchingImages(images_on_page, asset_id) ==
    { i \in DOMAIN images_on_page :
        asset_id \in KindSet(_parse_asset_type(images_on_page[i].alt)) }

\* C17: when some image of the detail page has a kind set holding the kind
\* asked for, resolve_asset_URL returns the URL of the first such image in page
\* order, as both elements of the pair; the images before it, whose kind sets
\* do not hold the kind, are skipped.
C17_FirstMatchingImage ==
    (ret.op = "resolve_asset_URL"
        /\ MatchingImages(ret.page, ret.selected_asset.asset_ID) # {}) =>
        LET hits  == MatchingImages(ret.page, ret.selected_asset.asset_ID)
            first == CHOOSE i \in hits : \A j \in hits : i <= j
        IN  ret.out = Returned(<< ret.page[first].url, ret.page[first].url >>)

\* C17 on the pages where no image before the first matching one has an
\* excluded ("Video") alt text.
C17_ButExcludedBefore ==
    (ret.op = "resolve_asset_URL"
        /\ MatchingImages(ret.page, ret.selected_asset.asset_ID) # {}) =>
        LET hits  == MatchingImages(ret.page, ret.selected_asset.asset_ID)
            first == CHOOSE i \in hits : \A j \in hits : i <= j
        IN  (\A j \in 1..(first - 1) : _parse_asset_type(ret.page[j].alt) # NoKinds) =>
                ret.out = Returned(<< ret.page[first].url, ret.page[first].url >>)

\* out holds, in batch order, exactly the assets of batch whose kind is kind.
IsKindSubsequence(out, batch, kind) ==
    LET idx == { i \in DOMAIN batch : batch[i].asset_ID = kind }
    IN  /\ Len(out) = Cardinality(idx)
        /\ \A j \in DOMAIN out :
               out[j] = batch[CHOOSE i \in idx : Cardinality({ m \in idx : m <= i }) = j]

\* The step is a get_assets of an enabled scraper for a candidate whose batch
\* the in-run cache holds.
CachedAssetRequest ==
    /\ ~scraper_disabled
    /\ ret'.op = "get_assets"
    /\ ret'.candidate \in DOMAIN all_asset_cache

\* No fetch was made and the in-run cache is what it was.
NothingFetchedOrStored ==
    /\ ret'.fetches = 0
    /\ net_log' = net_log
    /\ all_asset_cache' = all_asset_cache

\* C18 as stated: a get_assets of an enabled scraper for a cached candidate
\* makes no fetch, leaves every cache entry as it was and returns the assets of
\* the cached batch that have the kind asked for, in batch order.
C18_PureFilterAnyStatus ==
    [][ CachedAssetRequest =>
          /\ NothingFetchedOrStored
          /\ ret'.out.raised = "" /\ ~ret'.out.none
          /\ IsKindSubsequence(ret'.out.value, all_asset_cache[ret'.candidate],
                               ret'.asset_info_id) ]_vars

\* C18 amended: such a get_assets makes no fetch and leaves every cache entry
\* as it was; it returns the assets of the cached batch that have the kind asked
\* for, in batch order, when the status object it is given reports no failure,
\* and None when that object already reports one.
C18_PureFilter ==
    [][ CachedAssetRequest =>
          /\ NothingFetchedOrStored
          /\ ret'.out.raised = ""
          /\ ret'.out.none <=> ~ret'.entry_status
          /\ ret'.entry_status =>
                 IsKindSubsequence(ret'.out.value, all_asset_cache[ret'.candidate],
                                   ret'.asset_info_id) ]_vars

\* A request served from a cached batch of two kinds returned one of its assets
\* while the batch of the other candidate stayed in the cache.
C18_Witness ==
    /\ ret.op = "get_assets"
    /\ ~scraper_disabled
    /\ ret.hit
    /\ ret.entry_status
    /\ ret.fetches = 0
    /\ ReturnedValue("get_assets")
    /\ Len(ret.out.value) = 1
    /\ Len(all_asset_cache[ret.candidate]) = 2
    /\ DOMAIN all_asset_cache = CandidateIds

\* C19: a result built from a fetch that ended with a status other than 200 is
\* not memoized: after such a get_metadata the persistent cache has no entry
\* for the cache key, and after such an asset request the in-run cache has no
\* entry for the candidate, so that a later call fetches again.
C19_FailureNotMemoized ==
    /\ (MetadataMiss /\ (ret.http_code # 200 \/ ret.data_http_code # 200)) =>
           ret.cache_key \notin DOMAIN disk_cache
    /\ (ret.op = "get_assets" /\ ~scraper_disabled /\ ~ret.hit /\ ret.http_code # 200) =>
           ret.candidate \notin DOMAIN all_asset_cache

\* The asset half of C19 on its own.
C19_AssetFailureNotMemoized ==
    (ret.op = "get_assets" /\ ~scraper_disabled /\ ~ret.hit /\ ret.http_code # 200) =>
        ret.candidate \notin DOMAIN all_asset_cache

====
